---- MODULE Spec2Model ----
(***************************************************************************)
(* Model of the route-safety pipeline of the Unfold India backend:         *)
(*   backend/app/services/safety_engine.py  (feature extraction, scoring)   *)
(*   backend/app/services/route_service.py  (geocode cache, OSRM, ranking)  *)
(*   backend/app/routers/route.py           (validation, status mapping)    *)
(*                                                                         *)
(* Units.  Distances are metres, durations seconds, both integers.         *)
(* Strings are sequences of one-character strings, so that strip(),        *)
(* lower() and the regular expressions are computed, not assumed.          *)
(* Coordinates are pairs <<lat, lng>> in 1e-4 degrees.                     *)
(* safety_score is kept in tenths (95 stands for 9.5): the code computes   *)
(* round(clamped / 10.0, 1) of an integer, which is exact in tenths.       *)
(* The comparisons the code makes on floats (ratios, km, hours, km/h) are  *)
(* made here on the cross-multiplied integers.                             *)
(***************************************************************************)
EXTENDS Integers, Sequences, FiniteSets, TLC

VARIABLES
    \* --- request pipeline (routers/route.py, services/route_service.py) ---
    geocode_cache,  \* _geocode_cache: key -> <<lat, lng>>
    pc,             \* where the request coroutine is suspended
    stage,          \* which geocode() call of get_routes is running
    req,            \* the RouteRequest being served (raw fields), or NoRequest
    from_coords,    \* get_routes local
    to_coords,      \* get_routes local
    calls,          \* external calls issued for the current request, in order
    raw_routes,     \* what fetch_osrm_routes returned for the current request
    resp,           \* the HTTP response of the current request
    resolved,       \* history: normalized name -> coordinate of the last
                    \* geocode() call that succeeded for it
    \* --- direct calls of compute_safety ---
    route,          \* argument route
    mode,           \* argument mode
    result,         \* SafetyResult, or None before the call
    \* --- concurrent direct calls of geocode ---
    geo,            \* caller -> where its geocode() coroutine stands
    world           \* what Nominatim answers to each query string

pipeVars  == <<geocode_cache, pc, stage, req, from_coords, to_coords, calls,
               raw_routes, resp, resolved>>
scoreVars == <<route, mode, result>>
geoVars   == <<geo, world>>
vars      == <<geocode_cache, pc, stage, req, from_coords, to_coords, calls,
               raw_routes, resp, resolved, route, mode, result, geo, world>>

None == [none |-> TRUE]

\* ------------------------------------------------------------------------
\* Bounds of the model
\* ------------------------------------------------------------------------
MaxSteps == 3          \* steps per route in direct compute_safety calls
MaxCandidates == 4     \* routes in one OSRM reply (the code caps at 3)
NumCallers == 2        \* coroutines calling geocode concurrently

\* ------------------------------------------------------------------------
\* Strings
\* ------------------------------------------------------------------------
Whitespace == {" ", "\t", "\n"}

UpperToLower ==
    [c \in {"A","B","C","D","E","F","G","H","I","J","K","L","M",
            "N","O","P","Q","R","S","T","U","V","W","X","Y","Z"} |->
        CASE c = "A" -> "a" [] c = "B" -> "b" [] c = "C" -> "c" [] c = "D" -> "d"
          [] c = "E" -> "e" [] c = "F" -> "f" [] c = "G" -> "g" [] c = "H" -> "h"
          [] c = "I" -> "i" [] c = "J" -> "j" [] c = "K" -> "k" [] c = "L" -> "l"
          [] c = "M" -> "m" [] c = "N" -> "n" [] c = "O" -> "o" [] c = "P" -> "p"
          [] c = "Q" -> "q" [] c = "R" -> "r" [] c = "S" -> "s" [] c = "T" -> "t"
          [] c = "U" -> "u" [] c = "V" -> "v" [] c = "W" -> "w" [] c = "X" -> "x"
          [] c = "Y" -> "y" [] c = "Z" -> "z"]

\* str.lower()
Lower(s) ==
    [i \in 1..Len(s) |->
        IF s[i] \in DOMAIN UpperToLower THEN UpperToLower[s[i]] ELSE s[i]]

\* str.strip(): drops leading and trailing whitespace
Strip(s) ==
    LET keep == {i \in 1..Len(s) : s[i] \notin Whitespace}
    IN  IF keep = {} THEN <<>>
        ELSE LET lo == CHOOSE i \in keep : \A j \in keep : i <= j
                 hi == CHOOSE i \in keep : \A j \in keep : j <= i
             IN  SubSeq(s, lo, hi)

\* \w of the re module, on the characters the model uses
IsWordChar(c) == c \notin (Whitespace \cup {",", "-", "/", "(", ")", "."})

\* re.search(r"\b(alt1|alt2|...)\b", s, re.IGNORECASE): some alternative
\* occurs in s with a word boundary on both sides.  alts are lower-case and
\* begin and end with a word character.
Search(alts, s) ==
    LET t == Lower(s)
    IN  \E a \in alts : \E i \in 1..Len(t) :
            /\ i + Len(a) - 1 <= Len(t)
            /\ SubSeq(t, i, i + Len(a) - 1) = a
            /\ (i = 1 \/ ~IsWordChar(t[i - 1]))
            /\ (i + Len(a) - 1 = Len(t) \/ ~IsWordChar(t[i + Len(a)]))

\* ------------------------------------------------------------------------
\* Arithmetic helpers
\* ------------------------------------------------------------------------
\* round(num / den, 0) for num >= 0, den > 0: Python rounds half to even
RoundHalfEven(num, den) ==
    LET q == num \div den
        r == num % den
    IN  IF 2 * r < den THEN q
        ELSE IF 2 * r > den THEN q + 1
        ELSE IF q % 2 = 0 THEN q ELSE q + 1

\* int(p * (tenths / 10)): multiplication followed by truncation toward zero
TruncScale(p, tenths) ==
    IF p * tenths >= 0 THEN (p * tenths) \div 10
    ELSE -((-(p * tenths)) \div 10)

Max(a, b) == IF a >= b THEN a ELSE b
Min(a, b) == IF a <= b THEN a ELSE b

\* ------------------------------------------------------------------------
\* safety_engine.py
\* ------------------------------------------------------------------------
\* HIGHWAY_PATTERN of safety_engine.py, alternatives in lower case
HIGHWAY_PATTERN_ENGINE ==
    { <<"n","h">>, <<"s","h">>,
      <<"n","a","t","i","o","n","a","l"," ","h","i","g","h","w","a","y">>,
      <<"s","t","a","t","e"," ","h","i","g","h","w","a","y">>,
      <<"e","x","p","r","e","s","s","w","a","y">>,
      <<"m","o","t","o","r","w","a","y">>,
      <<"t","r","u","n","k">> }

\* SafetyMode = Literal["day", "night"]
DAY   == <<"d","a","y">>
NIGHT == <<"n","i","g","h","t">>

\* f"{name} {ref}"
Combined(step) == step.name \o <<" ">> \o step.ref

\* The road namings (name, ref) that steps of the model carry
RoadNamings ==
    { [name |-> <<>>, ref |-> <<>>],
      [name |-> <<"M","G"," ","R","o","a","d">>, ref |-> <<>>],
      [name |-> <<>>, ref |-> <<"N","H"," ","4","8">>],
      [name |-> <<"G","T"," ","T","r","u","n","k"," ","R","d">>, ref |-> <<>>] }

\* The namings on which HIGHWAY_PATTERN of safety_engine.py matches
EngineHighwayNamings ==
    {n \in RoadNamings : Search(HIGHWAY_PATTERN_ENGINE, Combined(n))}

\* HIGHWAY_PATTERN.search(combined) in _compute_highway_ratio
IsEngineHighway(step) ==
    LET n == [name |-> step.name, ref |-> step.ref]
    IN  IF n \in RoadNamings THEN n \in EngineHighwayNamings
        ELSE Search(HIGHWAY_PATTERN_ENGINE, Combined(n))

RECURSIVE EngineHighwayDist(_)
\* highway_dist of _compute_highway_ratio
EngineHighwayDist(steps) ==
    IF steps = <<>> THEN 0
    ELSE (IF IsEngineHighway(Head(steps)) THEN Head(steps).distance ELSE 0)
         + EngineHighwayDist(Tail(steps))

\* _compute_highway_ratio, as the fraction num / den (den = 0: ratio 0.0)
ComputeHighwayRatio(steps, total_distance_m) ==
    IF total_distance_m <= 0 THEN [num |-> 0, den |-> 1]
    ELSE [num |-> EngineHighwayDist(steps), den |-> total_distance_m]

RECURSIVE CountTurns(_)
\* number of steps whose maneuver type is neither depart nor arrive
CountTurns(steps) ==
    IF steps = <<>> THEN 0
    ELSE (IF Head(steps).mtype \notin {"depart", "arrive"} THEN 1 ELSE 0)
         + CountTurns(Tail(steps))

\* _compute_turn_density, as turns per total_distance_m / 1000 km:
\* the fraction (1000 * turns) / total_distance_m
ComputeTurnDensity(steps, total_distance_m) ==
    IF total_distance_m <= 0 THEN [num |-> 0, den |-> 1]
    ELSE [num |-> 1000 * CountTurns(steps), den |-> total_distance_m]

\* is_isolated of _compute_isolation
IsIsolated(step) == Strip(step.name) = <<>> /\ Strip(step.ref) = <<>>

RECURSIVE IsolationLoopMutant(_, _, _)
IsolationLoopMutant(steps, current_run_m, longest_m) ==
    IF steps = <<>> THEN longest_m
    ELSE IF IsIsolated(Head(steps))
         THEN IsolationLoopMutant(Tail(steps),
                                  current_run_m + Head(steps).distance, longest_m)
         ELSE IsolationLoopMutant(Tail(steps), 0, Max(current_run_m, longest_m))

RECURSIVE IsolationLoop(_, _, _)
\* the loop of _compute_isolation with its final-segment check; metres
IsolationLoop(steps, current_run_m, longest_m) ==
    IF steps = <<>> THEN Max(current_run_m, longest_m)
    ELSE IF IsIsolated(Head(steps))
         THEN IsolationLoop(Tail(steps),
                            current_run_m + Head(steps).distance, longest_m)
         ELSE IsolationLoop(Tail(steps), 0, Max(current_run_m, longest_m))

\* _compute_isolation, in metres (the code returns longest_m / 1000.0)
ComputeIsolation(steps) == IsolationLoop(steps, 0, 0)

\* _classify_traffic: avg_speed_kmh = (d / 1000) / (t / 3600) = 3.6 d / t
ClassifyTraffic(duration_s, distance_m) ==
    IF distance_m <= 0 \/ duration_s <= 0 THEN "Moderate"
    ELSE IF 36 * distance_m >= 700 * duration_s THEN "Low"
    ELSE IF 36 * distance_m >= 450 * duration_s THEN "Moderate"
    ELSE "High"

\* A. Highway Ratio: > 0.7 -> 0, >= 0.4 -> -5, else -10
RoadTypePenaltyMutant(ratio) ==
    IF 10 * ratio.num > 7 * ratio.den THEN 0
    ELSE IF 10 * ratio.num >= 4 * ratio.den THEN 5
    ELSE 10

RoadTypePenalty(ratio) ==
    IF 10 * ratio.num > 7 * ratio.den THEN 0
    ELSE IF 10 * ratio.num >= 4 * ratio.den THEN -5
    ELSE -10

\* B. Turn Density: < 1 -> 0, <= 2 -> -5, else -10
TurnDensityPenalty(density) ==
    IF density.num < density.den THEN 0
    ELSE IF density.num <= 2 * density.den THEN -5
    ELSE -10

\* C. Isolation Risk on longest_isolated_km: > 50 -> -15, > 20 -> -7, else 0
IsolationBasePenalty(longest_m) ==
    IF longest_m > 50000 THEN -15
    ELSE IF longest_m > 20000 THEN -7
    ELSE 0

\* if mode == "night": iso_penalty = int(iso_penalty * 1.5)
NightIsolationMutant(iso_penalty, m) ==
    IF m = NIGHT THEN TruncScale(iso_penalty, 5) ELSE iso_penalty

NightIsolation(iso_penalty, m) ==
    IF m = NIGHT THEN TruncScale(iso_penalty, 15) ELSE iso_penalty

\* D. Duration Risk on total_duration_h: > 8 -> -10, > 6 -> -5, else 0
DurationPenalty(duration_s) ==
    IF duration_s > 8 * 3600 THEN -10
    ELSE IF duration_s > 6 * 3600 THEN -5
    ELSE 0

\* E. Traffic Modifier
TrafficPenaltyMutant(traffic_level) ==
    IF traffic_level = "High" THEN -10
    ELSE IF traffic_level = "Moderate" THEN -5
    ELSE 5

TrafficPenalty(traffic_level) ==
    IF traffic_level = "High" THEN -10
    ELSE IF traffic_level = "Moderate" THEN -5
    ELSE 0

\* Night mode rural multiplier on the road_type penalty: int(p * 1.3)
NightRoadType(road_type, m) ==
    IF m = NIGHT /\ road_type < 0 THEN TruncScale(road_type, 13)
    ELSE road_type

PenaltyKeys == {"road_type", "turn_density", "isolation", "duration", "traffic"}

\* the penalties dict of compute_safety
Penalties(r, m) ==
    LET steps == r.steps
        traffic_level == ClassifyTraffic(r.duration, r.distance)
    IN  [road_type    |-> NightRoadType(
                              RoadTypePenalty(ComputeHighwayRatio(steps, r.distance)), m),
         turn_density |-> TurnDensityPenalty(ComputeTurnDensity(steps, r.distance)),
         isolation    |-> NightIsolation(
                              IsolationBasePenalty(ComputeIsolation(steps)), m),
         duration     |-> DurationPenalty(r.duration),
         traffic      |-> TrafficPenalty(traffic_level)]

\* sum(penalties.values())
SumPenalties(p) ==
    p.road_type + p.turn_density + p.isolation + p.duration + p.traffic

\* raw = base + sum(penalties.values()), base = 100
RawScore(p) == 100 + SumPenalties(p)

\* clamped = max(10, raw); normalised = round(clamped / 10.0, 1), in tenths
Normalise(raw) == Max(10, raw)

\* compute_safety(route, mode): the SafetyResult.
\*   highway_ratio in thousandths, turn_density in hundredths,
\*   longest_isolated_segment_km and distance_km in tenths of a km,
\*   duration_hours in hundredths of an hour; score in tenths.
compute_safety(r, m) ==
    LET steps   == r.steps
        ratio   == ComputeHighwayRatio(steps, r.distance)
        density == ComputeTurnDensity(steps, r.distance)
        p       == Penalties(r, m)
    IN  [score |-> Normalise(RawScore(p)),
         highway_ratio |-> RoundHalfEven(1000 * ratio.num, ratio.den),
         turn_density |-> RoundHalfEven(100 * density.num, density.den),
         longest_isolated_segment_km |-> RoundHalfEven(ComputeIsolation(steps), 100),
         traffic_level |-> ClassifyTraffic(r.duration, r.distance),
         penalties |-> p,
         distance_km |-> RoundHalfEven(r.distance, 100),
         duration_hours |-> RoundHalfEven(r.duration, 36)]

\* ------------------------------------------------------------------------
\* route_service.py
\* ------------------------------------------------------------------------
\* _SEED_CACHE, copied into _geocode_cache when the module is loaded
SEED_CACHE ==
    (<<"d","e","l","h","i">> :> <<286139, 772090>>)
    @@ (<<"n","e","w"," ","d","e","l","h","i">> :> <<286139, 772090>>)
    @@ (<<"m","u","m","b","a","i">> :> <<190760, 728777>>)
    @@ (<<"b","a","n","g","a","l","o","r","e">> :> <<129716, 775946>>)
    @@ (<<"b","e","n","g","a","l","u","r","u">> :> <<129716, 775946>>)
    @@ (<<"c","h","e","n","n","a","i">> :> <<130827, 802707>>)
    @@ (<<"k","o","l","k","a","t","a">> :> <<225726, 883639>>)
    @@ (<<"h","y","d","e","r","a","b","a","d">> :> <<173850, 784867>>)
    @@ (<<"p","u","n","e">> :> <<185204, 738567>>)
    @@ (<<"j","a","i","p","u","r">> :> <<269124, 757873>>)
    @@ (<<"a","h","m","e","d","a","b","a","d">> :> <<230225, 725714>>)
    @@ (<<"l","u","c","k","n","o","w">> :> <<268467, 809462>>)
    @@ (<<"a","g","r","a">> :> <<271767, 780081>>)
    @@ (<<"v","a","r","a","n","a","s","i">> :> <<253176, 829739>>)
    @@ (<<"g","o","a">> :> <<152993, 741240>>)
    @@ (<<"u","d","a","i","p","u","r">> :> <<245854, 737125>>)
    @@ (<<"j","o","d","h","p","u","r">> :> <<262389, 730243>>)
    @@ (<<"a","m","r","i","t","s","a","r">> :> <<316340, 748723>>)
    @@ (<<"s","h","i","m","l","a">> :> <<311048, 771734>>)
    @@ (<<"m","a","n","a","l","i">> :> <<322396, 771887>>)
    @@ (<<"r","i","s","h","i","k","e","s","h">> :> <<300869, 782676>>)
    @@ (<<"h","a","r","i","d","w","a","r">> :> <<299457, 781642>>)
    @@ (<<"m","y","s","o","r","e">> :> <<122958, 766394>>)
    @@ (<<"m","y","s","u","r","u">> :> <<122958, 766394>>)
    @@ (<<"k","o","c","h","i">> :> <<99312, 762673>>)
    @@ (<<"t","h","i","r","u","v","a","n","a","n","t","h","a","p","u","r","a","m">> :> <<85241, 769366>>)
    @@ (<<"c","h","a","n","d","i","g","a","r","h">> :> <<307333, 767794>>)
    @@ (<<"i","n","d","o","r","e">> :> <<227196, 758577>>)
    @@ (<<"b","h","o","p","a","l">> :> <<232599, 774126>>)
    @@ (<<"n","a","g","p","u","r">> :> <<211458, 790882>>)
    @@ (<<"s","u","r","a","t">> :> <<211702, 728311>>)
    @@ (<<"c","o","i","m","b","a","t","o","r","e">> :> <<110168, 769558>>)
    @@ (<<"v","i","s","a","k","h","a","p","a","t","n","a","m">> :> <<176868, 832185>>)
    @@ (<<"p","a","t","n","a">> :> <<256093, 851376>>)
    @@ (<<"r","a","n","c","h","i">> :> <<233441, 853096>>)
    @@ (<<"d","e","h","r","a","d","u","n">> :> <<303165, 780322>>)
    @@ (<<"g","u","w","a","h","a","t","i">> :> <<261445, 917362>>)
    @@ (<<"b","h","u","b","a","n","e","s","w","a","r">> :> <<202961, 858245>>)
    @@ (<<"t","r","i","v","a","n","d","r","u","m">> :> <<85241, 769366>>)
    @@ (<<"m","a","d","u","r","a","i">> :> <<99252, 781198>>)
    @@ (<<"j","a","i","s","a","l","m","e","r">> :> <<269157, 709083>>)
    @@ (<<"p","u","s","h","k","a","r">> :> <<264900, 745513>>)
    @@ (<<"m","a","t","h","u","r","a">> :> <<274924, 776737>>)
    @@ (<<"l","e","h">> :> <<341526, 775771>>)
    @@ (<<"s","r","i","n","a","g","a","r">> :> <<340837, 747973>>)
    @@ (<<"d","a","r","j","e","e","l","i","n","g">> :> <<270360, 882627>>)
    @@ (<<"g","a","n","g","t","o","k">> :> <<273389, 886065>>)
    @@ (<<"o","o","t","y">> :> <<114102, 766950>>)
    @@ (<<"k","o","d","a","i","k","a","n","a","l">> :> <<102381, 774892>>)
    @@ (<<"m","o","u","n","t"," ","a","b","u">> :> <<245926, 727156>>)
    @@ (<<"n","a","i","n","i","t","a","l">> :> <<293803, 794636>>)
    @@ (<<"m","u","s","s","o","o","r","i","e">> :> <<304598, 780644>>)

\* HIGHWAY_PATTERN of route_service.py, alternatives in lower case
HIGHWAY_PATTERN_SERVICE ==
    { <<"n","h">>, <<"s","h">>,
      <<"n","a","t","i","o","n","a","l"," ","h","i","g","h","w","a","y">>,
      <<"s","t","a","t","e"," ","h","i","g","h","w","a","y">>,
      <<"e","x","p","r","e","s","s","w","a","y">> }

\* key = place_name.strip().lower()
KeyMutant(place_name) == Strip(place_name)

Key(place_name) == Lower(Strip(place_name))

\* _geocode_cache[key] = (lat, lng)
CacheWriteMutant(cache, key, coord) == (key :> coord)

CacheWrite(cache, key, coord) == (key :> coord) @@ cache

\* a place name normalized: trimmed and lower-cased
Normalized(place_name) == Lower(Strip(place_name))

\* The namings on which HIGHWAY_PATTERN of route_service.py matches
ServiceHighwayNamings ==
    {n \in RoadNamings : Search(HIGHWAY_PATTERN_SERVICE, Combined(n))}

\* HIGHWAY_PATTERN.search(f"{name} {ref}") in classify_road_quality
IsServiceHighway(step) ==
    LET n == [name |-> step.name, ref |-> step.ref]
    IN  IF n \in RoadNamings THEN n \in ServiceHighwayNamings
        ELSE Search(HIGHWAY_PATTERN_SERVICE, Combined(n))

RECURSIVE QualityLoop(_, _, _)
\* the loop of classify_road_quality: <<highway_dist, total_dist>>
QualityLoop(steps, highway_dist, total_dist) ==
    IF steps = <<>> THEN <<highway_dist, total_dist>>
    ELSE QualityLoop(Tail(steps),
                     highway_dist + (IF IsServiceHighway(Head(steps))
                                     THEN Head(steps).distance ELSE 0),
                     total_dist + Head(steps).distance)

\* classify_road_quality(route)
classify_road_quality(r) ==
    LET hd == QualityLoop(r.steps, 0, 0)[1]
        td == QualityLoop(r.steps, 0, 0)[2]
    IN  IF td <= 0 THEN "Average"
        ELSE IF 10 * hd >= 6 * td THEN "Excellent"
        ELSE IF 10 * hd >= 3 * td THEN "Good"
        ELSE "Average"

\* one element of `processed` (step 3 of get_routes); i is the 0-based
\* index of enumerate, id i + 1 stands for f"route_{i + 1}"
ProcessRoute(i, r, m) ==
    LET safety_result == compute_safety(r, m)
    IN  [id |-> i + 1,
         name |-> "",
         distance_km |-> safety_result.distance_km,
         duration_minutes |-> RoundHalfEven(r.duration, 60),
         safety_score |-> safety_result.score,
         traffic_level |-> safety_result.traffic_level,
         road_quality |-> classify_road_quality(r),
         steps |-> r.steps,
         breakdown |-> [highway_ratio |-> safety_result.highway_ratio,
                        turn_density |-> safety_result.turn_density,
                        longest_isolated_segment_km |->
                            safety_result.longest_isolated_segment_km,
                        penalties |-> safety_result.penalties]]

\* for i, route in enumerate(raw_routes[:3]): processed.append(...)
ProcessedMutant(raw, m) ==
    [i \in 1..(Min(Len(raw), 3) - 1) |-> ProcessRoute(i, raw[i + 1], m)]

Processed(raw, m) ==
    [i \in 1..Min(Len(raw), 3) |-> ProcessRoute(i - 1, raw[i], m)]

RECURSIVE InsertDescMutant(_, _)
InsertDescMutant(sorted, x) ==
    IF sorted = <<>> THEN <<x>>
    ELSE IF Head(sorted).safety_score > x.safety_score
         THEN <<Head(sorted)>> \o InsertDescMutant(Tail(sorted), x)
         ELSE <<x>> \o sorted

RECURSIVE InsertDesc(_, _)
\* x goes behind every element whose key is >= its own, which is where a
\* stable sort with reverse=True leaves a later element
InsertDesc(sorted, x) ==
    IF sorted = <<>> THEN <<x>>
    ELSE IF Head(sorted).safety_score >= x.safety_score
         THEN <<Head(sorted)>> \o InsertDesc(Tail(sorted), x)
         ELSE <<x>> \o sorted

RECURSIVE SortFrom(_, _)
SortFrom(sorted, rest) ==
    IF rest = <<>> THEN sorted
    ELSE SortFrom(InsertDesc(sorted, Head(rest)), Tail(rest))

\* processed.sort(key=lambda r: r["safety_score"], reverse=True)
SortBySafetyDesc(processed) == SortFrom(<<>>, processed)

\* name_labels[i] if i < len(name_labels) else f"Route {i + 1}", i 0-based
NameLabel(i) ==
    CASE i = 0 -> "Recommended Route"
      [] i = 1 -> "Scenic Route"
      [] i = 2 -> "Shortest Route"
      [] i = 3 -> "Route 4"
      [] OTHER -> "Route 5"

\* step 5 of get_routes: route["name"] = ... by position
AssignNamesMutant(processed) ==
    [i \in 1..Len(processed) |->
        [processed[i] EXCEPT !.name = NameLabel(processed[i].id - 1)]]

AssignNames(processed) ==
    [i \in 1..Len(processed) |-> [processed[i] EXCEPT !.name = NameLabel(i - 1)]]

\* steps 3 to 5 of get_routes: the "routes" list of the result
RankedRoutes(raw, m) == AssignNames(SortBySafetyDesc(Processed(raw, m)))

\* httpx.AsyncClient.get / raise_for_status / resp.json() of geocode: what
\* the Nominatim call can come back with
NominatimOutcomes == {"ok", "empty", "http_status", "transport"}

\* what the OSRM call of fetch_osrm_routes can come back with
OsrmOutcomes == {"ok", "code_not_ok", "http_status", "transport"}

\* an exception: its class and str(e); arg is the place name the message
\* quotes, if any
Exc(class, msg, arg) == [class |-> class, msg |-> msg, arg |-> arg]

\* The exception geocode raises on a reply that is not a match:
\*   empty list      -> raise ValueError(...)
\*   4xx/5xx status  -> resp.raise_for_status() raises httpx.HTTPStatusError
\*   no reply        -> client.get raises an httpx.TransportError
GeocodeRaises(outcome, place_name) ==
    CASE outcome = "empty" ->
             Exc("ValueError", "Could not geocode. Please check the city name.",
                 place_name)
      [] outcome = "http_status" -> Exc("HTTPStatusError", "status error", <<>>)
      [] outcome = "transport"   -> Exc("TransportError", "transport error", <<>>)

\* The exception fetch_osrm_routes raises:
\*   data["code"] != "Ok" -> raise RuntimeError(...)
\*   4xx/5xx status       -> httpx.HTTPStatusError
\*   no reply             -> httpx.TransportError
FetchRaises(outcome) ==
    CASE outcome = "code_not_ok" -> Exc("RuntimeError", "OSRM error", <<>>)
      [] outcome = "http_status" -> Exc("HTTPStatusError", "status error", <<>>)
      [] outcome = "transport"   -> Exc("TransportError", "transport error", <<>>)

\* raise RuntimeError("No routes found between these locations.")
NoRoutesFound == Exc("RuntimeError", "No routes found between these locations.", <<>>)

\* The classes an exception is an instance of.  httpx.HTTPStatusError and
\* httpx.TransportError derive from httpx.HTTPError, which derives from
\* Exception: neither is a ValueError or a RuntimeError.
ExceptionBases(class) ==
    CASE class = "ValueError"      -> {"ValueError", "Exception"}
      [] class = "RuntimeError"    -> {"RuntimeError", "Exception"}
      [] class = "HTTPStatusError" -> {"HTTPStatusError", "HTTPError", "Exception"}
      [] class = "TransportError"  -> {"TransportError", "HTTPError", "Exception"}

\* the except clauses of route_endpoint, in order
StatusFor(exc) ==
    IF "ValueError" \in ExceptionBases(exc.class) THEN 422
    ELSE IF "RuntimeError" \in ExceptionBases(exc.class) THEN 502
    ELSE 500

\* not request.origin.strip() or not request.destination.strip()
PlacesMissingMutant(r) == r.origin = <<>> \/ r.destination = <<>>

PlacesMissing(r) == Strip(r.origin) = <<>> \/ Strip(r.destination) = <<>>

\* mode = request.mode.strip().lower() if request.mode else "day"
ModeOf(r) == IF r.mode # <<>> THEN Lower(Strip(r.mode)) ELSE DAY

\* ------------------------------------------------------------------------
\* Inputs
\* ------------------------------------------------------------------------
RawPlaces ==
    { <<"D","e","l","h","i">>,
      <<" ","h","a","m","p","i"," ">>,
      <<"H","a","m","p","i">>,
      <<" ">> }

RawModes ==
    { DAY,
      <<" ","N","i","g","h","t"," ">>,
      <<>>,
      <<" ">>,
      <<"e","v","e","n","i","n","g">> }

\* coordinates Nominatim may answer with
NominatimCoords == { <<153350, 764600>>, <<153400, 764700>> }

Step(d, n, t) == [distance |-> d, name |-> n.name, ref |-> n.ref, mtype |-> t]

\* <<distance, maneuver type>> of the steps of the model: a short turn, a
\* short and a long stretch that begin a leg
StepShapes == { <<250, "turn">>, <<250, "depart">>, <<30000, "depart">> }
Durations == {0, 3600, 25200, 36000}

StepTypes == {Step(s[1], n, s[2]) : s \in StepShapes, n \in RoadNamings}

StepSeqs == UNION {[1..n -> StepTypes] : n \in 0..MaxSteps}

RECURSIVE SumDistance(_)
SumDistance(steps) ==
    IF steps = <<>> THEN 0 ELSE Head(steps).distance + SumDistance(Tail(steps))

\* An OSRM route: its distance is the sum of its steps' distances
Route(steps, duration) ==
    [distance |-> SumDistance(steps), duration |-> duration, steps |-> steps]

Routes == {Route(s, t) : s \in StepSeqs, t \in Durations}

Unnamed == [name |-> <<>>, ref |-> <<>>]
MGRoad  == [name |-> <<"M","G"," ","R","o","a","d">>, ref |-> <<>>]
NH48    == [name |-> <<>>, ref |-> <<"N","H"," ","4","8">>]
GTTrunk == [name |-> <<"G","T"," ","T","r","u","n","k"," ","R","d">>, ref |-> <<>>]

\* The routes an OSRM reply of the model is made of
CandidateRoutes ==
    { Route(<<Step(30000, NH48, "depart"), Step(30000, NH48, "turn"),
              Step(30000, NH48, "arrive")>>, 3600),
      Route(<<Step(30000, Unnamed, "depart"), Step(30000, Unnamed, "arrive")>>, 3600),
      Route(<<Step(30000, MGRoad, "depart"), Step(250, MGRoad, "arrive")>>, 36000) }

OsrmReplies == UNION {[1..n -> CandidateRoutes] : n \in 0..MaxCandidates}

\* ------------------------------------------------------------------------
\* State machine of one request: POST /route
\* ------------------------------------------------------------------------
NoCoords == <<>>
NoWorld == <<>>
Callers == 1..NumCallers
IdleCaller == [pc |-> "idle", place_name |-> <<>>, queried |-> FALSE, ret |-> NoCoords]
NoRequest == [origin |-> <<>>, destination |-> <<>>, mode |-> <<>>]
NoDetail == [msg |-> "", arg |-> <<>>]
NoResponse == [status |-> 0, detail |-> NoDetail, routes |-> <<>>,
               origin_coords |-> NoCoords, destination_coords |-> NoCoords]

\* raise HTTPException(status_code=status, detail=msg)
ErrorResponse(status, msg, arg) ==
    [status |-> status, detail |-> [msg |-> msg, arg |-> arg], routes |-> <<>>,
     origin_coords |-> NoCoords, destination_coords |-> NoCoords]

\* the handlers of route_endpoint: detail=str(e), or "Unexpected error: ..."
Handled(exc) ==
    ErrorResponse(StatusFor(exc),
                  IF StatusFor(exc) = 500 THEN "Unexpected error" ELSE exc.msg,
                  exc.arg)

\* the dict get_routes returns, sent with status 200
SuccessResponse(routes, from, to) ==
    [status |-> 200, detail |-> NoDetail, routes |-> routes,
     origin_coords |-> from, destination_coords |-> to]

EmptyRoute == Route(<<>>, 0)

InitPipe ==
    /\ geocode_cache = SEED_CACHE
    /\ pc = "idle"
    /\ stage = "origin"
    /\ req = NoRequest
    /\ from_coords = NoCoords
    /\ to_coords = NoCoords
    /\ calls = <<>>
    /\ raw_routes = <<>>
    /\ resp = NoResponse
    /\ resolved = <<>>

\* no coroutine is inside a direct geocode() call
NoCallers ==
    /\ geo = [c \in Callers |-> IdleCaller]
    /\ world = NoWorld

Init ==
    /\ InitPipe
    /\ route = EmptyRoute
    /\ mode = DAY
    /\ result = None
    /\ NoCallers

\* the argument of the geocode() call get_routes is making
PlaceName == IF stage = "origin" THEN Strip(req.origin) ELSE Strip(req.destination)

GeocodeReturnsMutant(coord, cs) ==
    /\ resolved' = (Normalized(PlaceName) :> coord) @@ resolved
    /\ IF stage = "origin"
       THEN /\ from_coords' = coord
            /\ calls' = Append(cs, [svc |-> "osrm", arg |-> <<coord, to_coords>>])
            /\ UNCHANGED to_coords
       ELSE /\ to_coords' = coord
            /\ calls' = Append(cs, [svc |-> "osrm", arg |-> <<from_coords, coord>>])
            /\ UNCHANGED from_coords
    /\ pc' = "osrm"
    /\ UNCHANGED stage

\* geocode returns coord to get_routes, which goes on to the next await;
\* cs are the external calls issued so far
GeocodeReturns(coord, cs) ==
    /\ resolved' = (Normalized(PlaceName) :> coord) @@ resolved
    /\ IF stage = "origin"
       THEN /\ from_coords' = coord
            /\ stage' = "destination"
            /\ pc' = "geocode"
            /\ calls' = cs
            /\ UNCHANGED to_coords
       ELSE /\ to_coords' = coord
            /\ pc' = "osrm"
            /\ calls' = Append(cs, [svc |-> "osrm", arg |-> <<from_coords, coord>>])
            /\ UNCHANGED <<from_coords, stage>>

\* the locals of route_endpoint and get_routes are gone when it returns
Returns(response) ==
    /\ resp' = response
    /\ pc' = "idle"
    /\ req' = NoRequest
    /\ from_coords' = NoCoords
    /\ to_coords' = NoCoords
    /\ stage' = "origin"

\* POST /route arrives: the body is parsed into a RouteRequest
Receive(o, d, m) ==
    /\ pc = "idle"
    /\ pc' = "validate"
    /\ req' = [origin |-> o, destination |-> d, mode |-> m]
    /\ resp' = NoResponse
    /\ calls' = <<>>
    /\ raw_routes' = <<>>
    /\ UNCHANGED <<geocode_cache, from_coords, to_coords, stage, resolved, scoreVars, geoVars>>

\* route_endpoint up to the call of get_routes
RouteEndpoint ==
    /\ pc = "validate"
    /\ IF PlacesMissing(req)
       THEN Returns(ErrorResponse(422, "Origin and destination are required.", <<>>))
       ELSE IF ModeOf(req) \notin {DAY, NIGHT}
       THEN Returns(ErrorResponse(422, "Mode must be 'day' or 'night'.", <<>>))
       ELSE pc' = "geocode" /\ UNCHANGED <<resp, req, from_coords, to_coords, stage>>
    /\ UNCHANGED <<geocode_cache, calls, raw_routes, resolved, scoreVars, geoVars>>

\* geocode(place_name) up to its return on a cache hit or its await
GeocodeCall ==
    /\ pc = "geocode"
    /\ IF Key(PlaceName) \in DOMAIN geocode_cache
       THEN GeocodeReturns(geocode_cache[Key(PlaceName)], calls)
       ELSE /\ pc' = "nominatim"
            /\ calls' = Append(calls, [svc |-> "nominatim", arg |-> PlaceName])
            /\ UNCHANGED <<from_coords, to_coords, stage, resolved>>
    /\ UNCHANGED <<geocode_cache, req, raw_routes, resp, scoreVars, geoVars>>

\* geocode from the reply of Nominatim on
NominatimReply(outcome, coord) ==
    /\ pc = "nominatim"
    /\ IF outcome = "ok"
       THEN /\ geocode_cache' = CacheWrite(geocode_cache, Key(PlaceName), coord)
            /\ GeocodeReturns(coord, calls)
            /\ UNCHANGED <<resp, req>>
       ELSE /\ Returns(Handled(GeocodeRaises(outcome, PlaceName)))
            /\ UNCHANGED <<geocode_cache, calls, resolved>>
    /\ UNCHANGED <<raw_routes, scoreVars, geoVars>>

\* fetch_osrm_routes from the reply of OSRM on, and the rest of get_routes
OsrmReply(outcome, routes) ==
    /\ pc = "osrm"
    /\ IF outcome = "ok"
       THEN /\ raw_routes' = routes
            /\ Returns(IF routes = <<>>
                       THEN Handled(NoRoutesFound)
                       ELSE SuccessResponse(RankedRoutes(routes, ModeOf(req)),
                                            from_coords, to_coords))
       ELSE /\ raw_routes' = raw_routes
            /\ Returns(Handled(FetchRaises(outcome)))
    /\ UNCHANGED <<geocode_cache, calls, resolved, scoreVars, geoVars>>

Next ==
    \/ \E o \in RawPlaces, d \in RawPlaces, m \in RawModes : Receive(o, d, m)
    \/ RouteEndpoint
    \/ GeocodeCall
    \/ \E outcome \in NominatimOutcomes, coord \in NominatimCoords :
           NominatimReply(outcome, coord)
    \/ \E outcome \in OsrmOutcomes, routes \in OsrmReplies : OsrmReply(outcome, routes)

Spec == Init /\ [][Next]_vars

\* ------------------------------------------------------------------------
\* Direct calls of compute_safety on every route of the bounded set
\* ------------------------------------------------------------------------
InitScore ==
    /\ InitPipe
    /\ route \in Routes
    /\ mode \in {DAY, NIGHT}
    /\ result = None
    /\ NoCallers

ComputeSafety ==
    /\ result = None
    /\ result' = compute_safety(route, mode)
    /\ UNCHANGED <<route, mode, pipeVars, geoVars>>

NextScore == ComputeSafety

SpecScore == InitScore /\ [][NextScore]_vars

\* ------------------------------------------------------------------------
\* Concurrent direct calls of geocode
\*
\* Each caller is a coroutine inside geocode(); the only suspension point
\* is the await of the Nominatim reply, so the code before it and the code
\* after it each run as one step.  Nominatim answers a query string with
\* the best match for it: world fixes that answer (NoCoords is the empty
\* result list) for the time the callers overlap; transport and HTTP-status
\* failures strike each call on its own.
\* ------------------------------------------------------------------------
GeoNames ==
    { <<"H","a","m","p","i">>,
      <<"h","a","m","p","i">>,
      <<"D","e","l","h","i">> }

UncachedNames == {n \in GeoNames : Key(n) \notin DOMAIN SEED_CACHE}

Worlds == [UncachedNames -> NominatimCoords \cup {NoCoords}]

Faults == {"none", "http_status", "transport"}

InitGeo ==
    /\ InitPipe
    /\ route = EmptyRoute
    /\ mode = DAY
    /\ result = None
    /\ geo = [c \in Callers |-> IdleCaller]
    /\ world \in Worlds

\* geocode(place_name) from its call to the cache hit or the await
Geocode(c, place_name) ==
    /\ geo[c].pc # "await"
    /\ geo' = [geo EXCEPT ![c] =
                 IF Key(place_name) \in DOMAIN geocode_cache
                 THEN [pc |-> "returned", place_name |-> place_name,
                       queried |-> FALSE, ret |-> geocode_cache[Key(place_name)]]
                 ELSE [pc |-> "await", place_name |-> place_name,
                       queried |-> TRUE, ret |-> NoCoords]]
    /\ UNCHANGED <<world, pipeVars, scoreVars>>

\* geocode from the reply of Nominatim on: raise_for_status, the empty
\* result, the cache write and the return
GeocodeResume(c, fault) ==
    /\ geo[c].pc = "await"
    /\ LET data == world[geo[c].place_name] IN
       IF fault = "none" /\ data # NoCoords
       THEN /\ geocode_cache' = CacheWrite(geocode_cache, Key(geo[c].place_name), data)
            /\ geo' = [geo EXCEPT ![c].pc = "returned", ![c].ret = data]
       ELSE /\ geo' = [geo EXCEPT ![c].pc = "raised"]
            /\ UNCHANGED geocode_cache
    /\ UNCHANGED <<world, pc, stage, req, from_coords, to_coords, calls,
                   raw_routes, resp, resolved, scoreVars>>

NextGeo ==
    \/ \E c \in Callers, place_name \in GeoNames : Geocode(c, place_name)
    \/ \E c \in Callers, fault \in Faults : GeocodeResume(c, fault)

SpecGeo == InitGeo /\ [][NextGeo]_vars

\* ------------------------------------------------------------------------
\* The same request pipeline on requests between two places that are not
\* in the cache at start and one that is seeded, so that one request can
\* query Nominatim for the origin and for the destination; OSRM replies
\* with at most one route, which may follow a trunk road.
\* ------------------------------------------------------------------------
StagePlaces ==
    { <<"H","a","m","p","i">>,
      <<"P","u","r","i">>,
      <<"D","e","l","h","i">>,
      <<" ">> }

StageModes == { DAY, <<"e","v","e","n","i","n","g">> }

\* the candidates of Spec and a route along a trunk road
StageRoutes ==
    CandidateRoutes \cup
    { Route(<<Step(30000, GTTrunk, "depart"), Step(30000, GTTrunk, "arrive")>>, 3600) }

StageReplies == {<<>>} \cup {<<r>> : r \in StageRoutes}

NextStages ==
    \/ \E o \in StagePlaces, d \in StagePlaces, m \in StageModes : Receive(o, d, m)
    \/ RouteEndpoint
    \/ GeocodeCall
    \/ \E outcome \in NominatimOutcomes, coord \in NominatimCoords :
           NominatimReply(outcome, coord)
    \/ \E outcome \in OsrmOutcomes, routes \in StageReplies : OsrmReply(outcome, routes)

SpecStages == Init /\ [][NextStages]_vars

\* ------------------------------------------------------------------------
\* Properties
\* ------------------------------------------------------------------------
Abs(x) == IF x < 0 THEN -x ELSE x

\* C1: for every route and both modes the safety_score compute_safety
\* returns lies between 1.0 and 10.0 (10 and 100 tenths).
C1_ScoreInRange ==
    result # None => (10 <= result.score /\ result.score <= 100)

\* a night-mode route scored at the ceiling, 10.0
C1_Witness ==
    result # None /\ mode = NIGHT /\ result.score = 100 /\ Len(route.steps) = MaxSteps

\* C9: every penalty of the breakdown is a non-positive integer, for every
\* route and both modes, so raw = 100 + sum(penalties) never exceeds 100.
C9_PenaltiesNonPositive ==
    result # None =>
        /\ DOMAIN result.penalties = PenaltyKeys
        /\ \A k \in PenaltyKeys :
               result.penalties[k] \in Int /\ result.penalties[k] <= 0
        /\ RawScore(result.penalties) <= 100

\* a night-mode route with the heaviest isolation and road-type penalties
C9_Witness ==
    /\ result # None
    /\ result.penalties.isolation = -22
    /\ result.penalties.road_type = -13
    /\ result.penalties.traffic = -5

\* C8: for every route, night mode gives an isolation penalty at least as
\* large in magnitude as day mode, a road_type penalty at least as large in
\* magnitude whenever the day-mode one is negative, and the same
\* turn_density, duration and traffic penalties as day mode.
C8_NightNotMilder ==
    (result # None /\ mode = NIGHT) =>
        LET night == result.penalties
            day   == compute_safety(route, DAY).penalties
        IN  /\ Abs(night.isolation) >= Abs(day.isolation)
            /\ day.road_type < 0 => Abs(night.road_type) >= Abs(day.road_type)
            /\ night.turn_density = day.turn_density
            /\ night.duration = day.duration
            /\ night.traffic = day.traffic

\* a night-mode route on which both night multipliers truncate:
\* int(-7 * 1.5) = -10 and int(-5 * 1.3) = -6
C8_Witness ==
    /\ result # None
    /\ mode = NIGHT
    /\ result.penalties.isolation = -10
    /\ result.penalties.road_type = -6
    /\ compute_safety(route, DAY).penalties.isolation = -7
    /\ compute_safety(route, DAY).penalties.road_type = -5

\* C2: the routes of a successful result are in non-increasing order of
\* safety_score, and routes of equal score are in the order in which OSRM
\* returned them (ids are the positions in the OSRM reply).
C2_SortedStable ==
    resp.status = 200 =>
        \A i, j \in 1..Len(resp.routes) :
            i < j =>
                /\ resp.routes[i].safety_score >= resp.routes[j].safety_score
                /\ resp.routes[i].safety_score = resp.routes[j].safety_score
                       => resp.routes[i].id < resp.routes[j].id

\* three routes, the last of OSRM's ranked first, and a tie behind it
C2_Witness ==
    /\ resp.status = 200
    /\ Len(resp.routes) = 3
    /\ resp.routes[1].id = 3
    /\ resp.routes[2].safety_score = resp.routes[3].safety_score
    /\ resp.routes[1].safety_score > resp.routes[2].safety_score

\* C3: the routes of a successful result are named by position: the first
\* "Recommended Route", the second "Scenic Route", the third "Shortest
\* Route"; no name is empty and no two routes share a name.
C3_LabelsByPosition ==
    resp.status = 200 =>
        LET labels == <<"Recommended Route", "Scenic Route", "Shortest Route">>
            n == Len(resp.routes)
        IN  /\ n <= 3
            /\ \A i \in 1..n :
                   resp.routes[i].name = labels[i] /\ resp.routes[i].name # ""
            /\ \A i, j \in 1..n :
                   i # j => resp.routes[i].name # resp.routes[j].name

\* three routes whose ranking is not the order of the OSRM reply
C3_Witness ==
    /\ resp.status = 200
    /\ Len(resp.routes) = 3
    /\ resp.routes[1].id = 2
    /\ resp.routes[3].id = 1
    /\ resp.routes[3].name = "Shortest Route"

\* C7: a successful result holds exactly min(n, 3) routes for the n >= 1
\* candidates of the OSRM reply, one for each of the first min(n, 3)
\* candidates (ids 1..k, each once, each built from its candidate); without
\* candidates the request is no success and no response other than a
\* success carries routes.
C7_NoPartialResults ==
    /\ resp.status = 200 =>
           LET n == Len(raw_routes)
               k == Len(resp.routes)
           IN  /\ n >= 1
               /\ k = (IF n < 3 THEN n ELSE 3)
               /\ {resp.routes[i].id : i \in 1..k} = 1..k
               /\ \A i \in 1..k :
                      LET r == raw_routes[resp.routes[i].id]
                      IN  /\ resp.routes[i].steps = r.steps
                          /\ resp.routes[i].safety_score
                                 \in {compute_safety(r, DAY).score,
                                      compute_safety(r, NIGHT).score}
    /\ (pc = "idle" /\ raw_routes = <<>>) => resp.status # 200
    /\ resp.status # 200 => resp.routes = <<>>

\* OSRM returned more candidates than the cap and three routes came back
C7_Witness ==
    /\ resp.status = 200
    /\ Len(raw_routes) = MaxCandidates
    /\ Len(resp.routes) = 3
    /\ resp.routes[1].id = 3

\* the Nominatim queries among the external calls cs
NominatimQueries(cs) == SelectSeq(cs, LAMBDA c : c.svc = "nominatim")

\* C4: once a geocode call for a name has succeeded, a later geocode call
\* whose name normalizes (trim + lower-case) to the same key returns the
\* cached coordinate and issues no Nominatim query; a seeded name is never
\* sent to Nominatim.
C4_CacheIdempotent ==
    [][ /\ (pc = "geocode" /\ Normalized(PlaceName) \in DOMAIN resolved) =>
               /\ pc' # "nominatim"
               /\ NominatimQueries(calls') = NominatimQueries(calls)
               /\ (IF stage = "origin" THEN from_coords' ELSE to_coords')
                      = resolved[Normalized(PlaceName)]
               /\ resolved[Normalized(PlaceName)]
                      = geocode_cache[Normalized(PlaceName)]
        /\ \A i \in 1..Len(calls') :
               calls'[i].svc = "nominatim"
                   => Normalized(calls'[i].arg) \notin DOMAIN SEED_CACHE
      ]_vars

\* the origin " hampi " went to Nominatim, the destination "Hampi" was then
\* answered from the cache: one query, and the routing call follows it
C4_Witness ==
    /\ pc = "osrm"
    /\ req.origin = <<" ","h","a","m","p","i"," ">>
    /\ req.destination = <<"H","a","m","p","i">>
    /\ Len(calls) = 2
    /\ calls[1] = [svc |-> "nominatim", arg |-> <<"h","a","m","p","i">>]
    /\ calls[2].svc = "osrm"
    /\ to_coords = from_coords

\* the request has returned and its last external call was a Nominatim
\* query: that geocode call failed
GeocodeFailed ==
    pc = "idle" /\ calls # <<>> /\ calls[Len(calls)].svc = "nominatim"

\* C5: every failure of place resolution (empty result, or a failure of the
\* geocoding call at transport or HTTP level) reaches the boundary as status
\* 422, never 500 or 502, and the failed name is not added to the cache.
C5_GeocodeFailureIs422 ==
    GeocodeFailed =>
        /\ resp.status = 422
        /\ Normalized(calls[Len(calls)].arg) \notin DOMAIN geocode_cache

\* the request has returned without success and its last external call was
\* the routing call: routing failed or gave no candidate
RoutingFailed ==
    /\ pc = "idle"
    /\ calls # <<>>
    /\ calls[Len(calls)].svc = "osrm"
    /\ resp.status # 200

\* C6: every failure of the routing provider (non-success status, transport
\* failure, zero candidates) reaches the boundary as status 502, never 500
\* or 422.
C6_RoutingFailureIs502 == RoutingFailed => resp.status = 502

\* the request is invalid as the claim has it: a place empty after trimming,
\* or a mode that trim + lower-case does not turn into "day" or "night"
InvalidAsClaimed(r) ==
    \/ Strip(r.origin) = <<>>
    \/ Strip(r.destination) = <<>>
    \/ Lower(Strip(r.mode)) \notin {DAY, NIGHT}

\* as above, for a mode that is not the empty string
InvalidAsAmended(r) ==
    \/ Strip(r.origin) = <<>>
    \/ Strip(r.destination) = <<>>
    \/ (r.mode # <<>> /\ Lower(Strip(r.mode)) \notin {DAY, NIGHT})

\* what a rejection is: status 422, the request over, no external call
\* issued and the place cache as it was
RejectedStep ==
    /\ resp'.status = 422
    /\ pc' = "idle"
    /\ calls' = <<>>
    /\ geocode_cache' = geocode_cache

\* C10 as stated: a request with an empty place or with a mode that does
\* not normalize to "day" or "night" is rejected with 422 before any
\* geocoding or routing call, the cache unchanged.
C10_Original ==
    [][(pc = "validate" /\ InvalidAsClaimed(req)) => RejectedStep]_vars

\* C10 amended: a request with an empty place, or with a non-empty mode
\* that does not normalize to "day" or "night", is rejected with 422 before
\* any geocoding or routing call, the cache unchanged.
C10_Amended ==
    [][(pc = "validate" /\ InvalidAsAmended(req)) => RejectedStep]_vars

\* a request rejected for its mode, no external call issued
C10_Witness ==
    /\ pc = "idle"
    /\ resp.status = 422
    /\ resp.detail.msg = "Mode must be 'day' or 'night'."
    /\ calls = <<>>
    /\ geocode_cache = SEED_CACHE


\* a geocode call that queried Nominatim returns (so it has written)
Completes(c) == geo[c].pc = "await" /\ geo'[c].pc = "returned"

RoutingCalls(cs) == SelectSeq(cs, LAMBDA c : c.svc = "osrm")

\* the external calls of the current request respect the order of the stages
StagesInOrder ==
    LET Q == NominatimQueries(calls)
        R == RoutingCalls(calls)
    IN  /\ Len(Q) <= 2
        /\ Len(Q) = 2 => Normalized(Q[1].arg) # Normalized(Q[2].arg)
        /\ Len(R) <= 1
        /\ Len(R) = 1 =>
               /\ calls[Len(calls)].svc = "osrm"
               /\ calls[Len(calls)].arg[1] # NoCoords
               /\ calls[Len(calls)].arg[2] # NoCoords
        /\ to_coords # NoCoords => from_coords # NoCoords
        /\ stage = "destination" => from_coords # NoCoords
        /\ pc = "nominatim" =>
               /\ calls[Len(calls)] = [svc |-> "nominatim", arg |-> PlaceName]
               /\ R = <<>>
               /\ stage = "origin" => Len(calls) = 1
        /\ pc = "osrm" =>
               /\ stage = "destination"
               /\ from_coords # NoCoords /\ to_coords # NoCoords
               /\ calls[Len(calls)] = [svc |-> "osrm", arg |-> <<from_coords, to_coords>>]
               /\ {Normalized(Strip(req.origin)), Normalized(Strip(req.destination))}
                      \subseteq DOMAIN geocode_cache
        /\ pc \in {"geocode", "nominatim", "osrm"} =>
               \A i \in 1..Len(Q) :
                   /\ Q[i].arg \in {Strip(req.origin), Strip(req.destination)}
                   /\ (i = 1 /\ (Len(Q) = 2 \/ stage = "origin"))
                          => Q[i].arg = Strip(req.origin)
                   /\ i = 2 => Q[i].arg = Strip(req.destination)

\* C12: within one request the origin is resolved before the destination,
\* the routing call is issued only after both resolutions succeeded, at
\* most one Nominatim query per name and at most one routing call are
\* issued, a step issues at most one call, and once the request has ended
\* (a failed stage ends it at once) its list of calls never grows: the
\* next step is the arrival of a new request.
C12_StagesInOrderFailFast ==
    [][ /\ StagesInOrder'
        /\ pc # "idle" =>
               \/ calls' = calls
               \/ \E svc \in {"nominatim", "osrm"} :
                      /\ Len(calls') = Len(calls) + 1
                      /\ SubSeq(calls', 1, Len(calls)) = calls
                      /\ calls'[Len(calls')].svc = svc
        /\ pc' = "idle" => calls' = calls
        /\ pc = "idle" => pc' = "validate" /\ calls' = <<>>
        /\ (pc = "nominatim" /\ pc' = "nominatim") => FALSE
        /\ (pc = "osrm") => pc' = "idle"
      ]_vars

\* a request whose routing stage failed after both resolutions queried
\* Nominatim: three calls in order, and none after the failure
C12_Witness ==
    /\ pc = "idle"
    /\ resp.status \in {500, 502}
    /\ Len(calls) = 3
    /\ calls[1].svc = "nominatim"
    /\ calls[2].svc = "nominatim"
    /\ calls[3].svc = "osrm"

\* the road quality that goes with a highway ratio given in thousandths
QualityOf(highway_ratio) ==
    IF highway_ratio >= 600 THEN "Excellent"
    ELSE IF highway_ratio >= 300 THEN "Good"
    ELSE "Average"

\* C13: every route of a response has the road_quality that goes with the
\* highway ratio its breakdown reports: Excellent from 0.6 on, Good from
\* 0.3 to below 0.6, Average otherwise.
C13_QualityFollowsRatio ==
    \A i \in 1..Len(resp.routes) :
        resp.routes[i].road_quality = QualityOf(resp.routes[i].breakdown.highway_ratio)

\* a step whose name and ref are both empty
NoNameNoRef(step) == step.name = <<>> /\ step.ref = <<>>

\* the maximal contiguous runs <<i, j>> of steps without name and ref
UnnamedRuns(steps) ==
    {run \in (1..Len(steps)) \X (1..Len(steps)) :
        /\ run[1] <= run[2]
        /\ \A k \in run[1]..run[2] : NoNameNoRef(steps[k])
        /\ run[1] = 1 \/ ~NoNameNoRef(steps[run[1] - 1])
        /\ run[2] = Len(steps) \/ ~NoNameNoRef(steps[run[2] + 1])}

RunLength(steps, run) == SumDistance(SubSeq(steps, run[1], run[2]))

\* the length in metres of the longest of them, 0 if there is none
LongestUnnamedRun(steps) ==
    IF UnnamedRuns(steps) = {} THEN 0
    ELSE CHOOSE m \in {RunLength(steps, run) : run \in UnnamedRuns(steps)} :
             \A run \in UnnamedRuns(steps) : RunLength(steps, run) <= m

\* C14: the longest isolated segment of a scored route is the largest sum
\* of step distances over the maximal runs of steps with neither name nor
\* ref, a run that ends at the last step included, and is reported in km
\* to one decimal; for a route all of whose steps are unnamed it is the
\* route's distance, and with one named step between two unnamed ones it
\* is the longer of the two.
C14_LongestIsolatedRun ==
    result # None =>
        LET steps == route.steps IN
        /\ ComputeIsolation(steps) = LongestUnnamedRun(steps)
        /\ result.longest_isolated_segment_km
               = RoundHalfEven(LongestUnnamedRun(steps), 100)
        /\ (\A k \in 1..Len(steps) : NoNameNoRef(steps[k])) =>
               /\ ComputeIsolation(steps) = route.distance
               /\ result.longest_isolated_segment_km = result.distance_km
        /\ (/\ Len(steps) = 3
            /\ NoNameNoRef(steps[1])
            /\ ~NoNameNoRef(steps[2])
            /\ NoNameNoRef(steps[3])) =>
               ComputeIsolation(steps) = Max(steps[1].distance, steps[3].distance)

\* a scored route with a named step between a short unnamed step and a long
\* unnamed last step: the run that ends the route is the longest, 30.0 km
C14_Witness ==
    /\ result # None
    /\ Len(route.steps) = 3
    /\ NoNameNoRef(route.steps[1])
    /\ ~NoNameNoRef(route.steps[2])
    /\ NoNameNoRef(route.steps[3])
    /\ route.steps[1].distance < route.steps[3].distance
    /\ result.longest_isolated_segment_km = 300
====
